---- MODULE Spec2Model ----
(***************************************************************************)
(* Model of Password_Complexity_Checker (password_complexity_checker.py). *)
(* A string is a sequence of one-character strings.  The engine's fields, *)
(* the two reference files it reads and the last value returned by        *)
(* analyze() and by the static classifier are the state.                  *)
(***************************************************************************)
EXTENDS Integers, Sequences, FiniteSets

VARIABLES
    pc,                \* "start" | "constructed" | "analyzed" | "raised"
    password,          \* self.password
    username,          \* self.username
    email,             \* self.email
    old_password,      \* self.old_password
    common_passwords,  \* self.common_passwords
    criteria,          \* self.criteria
    result,            \* the dict returned by the last analyze()
    label,             \* the last call of the static _get_strength_label
    commonFile,        \* ./common_passwords.txt as the file system holds it
    dictFile           \* /usr/share/dict/words as the file system holds it

vars == <<pc, password, username, email, old_password, common_passwords,
          criteria, result, label, commonFile, dictFile>>

\* ------------------------------------------------------------ characters

LowerSeq == <<"a", "b", "c", "d", "e", "f", "g", "h", "i", "j", "k", "l", "m",
              "n", "o", "p", "q", "r", "s", "t", "u", "v", "w", "x", "y", "z">>

UpperSeq == <<"A", "B", "C", "D", "E", "F", "G", "H", "I", "J", "K", "L", "M",
              "N", "O", "P", "Q", "R", "S", "T", "U", "V", "W", "X", "Y", "Z">>

AsciiDigitSeq == <<"0", "1", "2", "3", "4", "5", "6", "7", "8", "9">>

Range(s) == {s[i] : i \in 1..Len(s)}

\* [a-z]
LowerClass == Range(LowerSeq)

\* [A-Z]
UpperClass == Range(UpperSeq)

\* A decimal digit outside ASCII (ARABIC-INDIC DIGIT THREE), as one character.
UnicodeDigit == "U+0663"

\* \d on a str pattern: every Unicode decimal digit
DigitClass == Range(AsciiDigitSeq) \cup {UnicodeDigit}

\* [!@#$%^&*(),.?":{}|<>]
SpecialClass == {"!", "@", "#", "$", "%", "^", "&", "*", "(", ")", ",", ".",
                 "?", "\"", ":", "{", "}", "|", "<", ">"}

\* [^a-zA-Z0-9]: c is none of the 62 ASCII letters and digits
NonAlnum(c) == c \notin (LowerClass \cup UpperClass \cup Range(AsciiDigitSeq))

\* re.search of a one-character class
SearchClass(s, class) == \E i \in 1..Len(s) : s[i] \in class

\* "." of a pattern compiled without DOTALL: any character but a newline
Dot(c) == c # "\n"

\* str.lower(), a character at a time
LowerChar(c) ==
    IF c \in UpperClass
    THEN LowerSeq[CHOOSE i \in 1..Len(UpperSeq) : UpperSeq[i] = c]
    ELSE c

Lower(s) == [i \in 1..Len(s) |-> LowerChar(s[i])]

Whitespace == {" ", "\n", "\t"}

\* str.strip(): leading and trailing whitespace removed
RECURSIVE StripLeft(_)
StripLeft(s) ==
    IF s # <<>> /\ Head(s) \in Whitespace THEN StripLeft(Tail(s)) ELSE s

RECURSIVE StripRight(_)
StripRight(s) ==
    IF s # <<>> /\ s[Len(s)] \in Whitespace
    THEN StripRight(SubSeq(s, 1, Len(s) - 1))
    ELSE s

Strip(s) == StripRight(StripLeft(s))

\* needle in hay, for two str
Contains(hay, needle) ==
    \E i \in 0..(Len(hay) - Len(needle)) :
        SubSeq(hay, i + 1, i + Len(needle)) = needle

\* x in a list
InList(x, list) == \E i \in 1..Len(list) : list[i] = x

\* s[::-1]
Reverse(s) == [i \in 1..Len(s) |-> s[Len(s) + 1 - i]]

\* s.split("@")[0]: the part before the first "@", all of s when it has none
RECURSIVE BeforeAt(_)
BeforeAt(s) ==
    IF s = <<>> \/ Head(s) = "@" THEN <<>> ELSE <<Head(s)>> \o BeforeAt(Tail(s))

\* ------------------------------------------------------- reference files

\* A file as open() and the iteration over it see it.  kind:
\*   "ok"          opened and read, lines as they are in the file
\*   "missing"     open() raises FileNotFoundError
\*   "denied"      open() raises PermissionError
\*   "undecodable" iterating raises UnicodeDecodeError
LoadFailureKinds == {"missing", "denied", "undecodable"}

\* [line.strip().lower() for line in f]
StrippedLowerLines(file) ==
    [i \in 1..Len(file.lines) |-> Lower(Strip(file.lines[i]))]

DefaultCommonPasswords ==
    << <<"p", "a", "s", "s", "w", "o", "r", "d">>,
       <<"1", "2", "3", "4", "5", "6">>,
       <<"q", "w", "e", "r", "t", "y">>,
       <<"l", "e", "t", "m", "e", "i", "n">>,
       <<"w", "e", "l", "c", "o", "m", "e">>,
       <<"a", "d", "m", "i", "n">>,
       <<"1", "2", "3", "4", "5", "6", "7", "8">>,
       <<"1", "2", "3", "4", "5", "6", "7", "8", "9">>,
       <<"1", "2", "3", "1", "2", "3">>,
       <<"1", "1", "1", "1", "1", "1">> >>

\* _load_common_passwords: raised is TRUE when an exception leaves the method
_load_common_passwords(file) ==
    IF file.kind = "ok" THEN [raised |-> FALSE, value |-> StrippedLowerLines(file)]
    ELSE IF file.kind = "missing"
         THEN [raised |-> FALSE, value |-> DefaultCommonPasswords]
         ELSE [raised |-> TRUE, value |-> <<>>]

\* ------------------------------------------------------------- detectors

sequences ==
    << <<"a", "b", "c", "d", "e", "f", "g", "h", "i", "j", "k", "l", "m",
         "n", "o", "p", "q", "r", "s", "t", "u", "v", "w", "x", "y", "z">>,
       <<"z", "y", "x", "w", "v", "u", "t", "s", "r", "q", "p", "o", "n",
         "m", "l", "k", "j", "i", "h", "g", "f", "e", "d", "c", "b", "a">>,
       <<"0", "1", "2", "3", "4", "5", "6", "7", "8", "9", "0">>,
       <<"9", "8", "7", "6", "5", "4", "3", "2", "1", "0">>,
       <<"q", "w", "e", "r", "t", "y", "u", "i", "o", "p">>,
       <<"p", "o", "i", "u", "y", "t", "r", "e", "w", "q">>,
       <<"a", "s", "d", "f", "g", "h", "j", "k", "l">>,
       <<"l", "k", "j", "h", "g", "f", "d", "s", "a">>,
       <<"z", "x", "c", "v", "b", "n", "m">>,
       <<"m", "n", "b", "v", "c", "x", "z">> >>

\* A sliding-window variant: any 4-character slice of a reference sequence.
_has_sequential_chars_window(pw) ==
    \E k \in 1..Len(sequences) : \E i \in 0..(Len(sequences[k]) - 4) :
        Contains(Lower(pw), SubSeq(sequences[k], i + 1, i + 4))

\* any(seq in password_lower for seq in sequences)
_has_sequential_chars(pw) ==
    \E k \in 1..Len(sequences) : Contains(Lower(pw), sequences[k])

\* A variant that lowercases the password first, as the other detectors do.
_has_repeated_chars_lower(pw) ==
    \E i \in 1..(Len(pw) - 2) :
        /\ Dot(Lower(pw)[i])
        /\ Lower(pw)[i + 1] = Lower(pw)[i]
        /\ Lower(pw)[i + 2] = Lower(pw)[i]

\* re.search(r"(.)\1\1", self.password), as its truth value
_has_repeated_chars(pw) ==
    \E i \in 1..(Len(pw) - 2) :
        /\ Dot(pw[i])
        /\ pw[i + 1] = pw[i]
        /\ pw[i + 2] = pw[i]

_contains_personal_info(pw, user, mail) ==
    IF user = <<>> /\ mail = <<>> THEN FALSE
    ELSE \/ (user # <<>> /\ Contains(Lower(pw), Lower(user)))
         \/ (mail # <<>> /\ Contains(Lower(pw), Lower(BeforeAt(mail))))

\* A variant without the early return for an absent old password.
_is_similar_to_old_unguarded(pw, old) ==
    \/ Lower(pw) = Lower(old)
    \/ Contains(Lower(pw), Lower(old))

_is_similar_to_old(pw, old) ==
    IF old = <<>> THEN FALSE
    ELSE \/ Lower(pw) = Lower(old)
         \/ Contains(Lower(pw), Lower(old))

\* _contains_dictionary_word: raised is TRUE when an exception leaves the method
_contains_dictionary_word(pw, file) ==
    IF file.kind = "missing" THEN [raised |-> FALSE, value |-> FALSE]
    ELSE IF file.kind = "ok"
         THEN [raised |-> FALSE,
               value |-> \E w \in Range(StrippedLowerLines(file)) :
                             Len(w) > 3 /\ Contains(Lower(pw), w)]
         ELSE [raised |-> TRUE, value |-> FALSE]

keyboard_rows ==
    << <<"q", "w", "e", "r", "t", "y", "u", "i", "o", "p">>,
       <<"a", "s", "d", "f", "g", "h", "j", "k", "l">>,
       <<"z", "x", "c", "v", "b", "n", "m">>,
       <<"1", "2", "3", "4", "5", "6", "7", "8", "9", "0">> >>

_has_keyboard_pattern(pw) ==
    \E r \in 1..Len(keyboard_rows) : \E i \in 0..(Len(keyboard_rows[r]) - 4) :
        \/ Contains(Lower(pw), SubSeq(keyboard_rows[r], i + 1, i + 4))
        \/ Contains(Lower(pw), Reverse(SubSeq(keyboard_rows[r], i + 1, i + 4)))

\* --------------------------------------------------------------- criteria

MinLength == 12

\* An off-by-one variant of the length check.
LengthCheckStrict(pw) == Len(pw) > MinLength

\* len(self.password) >= 12
LengthCheck(pw) == Len(pw) >= MinLength

\* The keys of the criteria dict, in insertion order.
CriteriaKeys ==
    <<"length", "uppercase", "lowercase", "number", "special_char", "not_common",
      "no_sequential", "no_repeated", "no_personal_info", "not_similar_old",
      "no_dict_words", "no_keyboard_patterns">>

\* _initialize_criteria: raised is TRUE when the dictionary read raises
_initialize_criteria(pw, user, mail, old, common, dfile) ==
    [raised |-> _contains_dictionary_word(pw, dfile).raised,
     value |->
        [length |-> LengthCheck(pw),
         uppercase |-> SearchClass(pw, UpperClass),
         lowercase |-> SearchClass(pw, LowerClass),
         number |-> SearchClass(pw, DigitClass),
         special_char |-> SearchClass(pw, SpecialClass),
         not_common |-> ~InList(Lower(pw), common),
         no_sequential |-> ~_has_sequential_chars(pw),
         no_repeated |-> ~_has_repeated_chars(pw),
         no_personal_info |-> ~_contains_personal_info(pw, user, mail),
         not_similar_old |-> ~_is_similar_to_old(pw, old),
         no_dict_words |-> ~_contains_dictionary_word(pw, dfile).value,
         no_keyboard_patterns |-> ~_has_keyboard_pattern(pw)]]

\* ---------------------------------------------------------------- entropy

\* Entropy is kept in thousandths of a bit.  Bits(b) is b bits.
Bits(b) == b * 1000

\* floor(1000 * log2(n)) for the pool sizes 26 + 26 + 10 + 32 can add up to.
\* With it, Len * Log2Milli agrees with math.log2(pool ** Len) on every
\* comparison with 0, 30, 45, 60 and 75 bits for lengths up to 40.
Log2Milli(n) ==
    CASE n = 10 -> 3321 [] n = 26 -> 4700 [] n = 32 -> 5000 [] n = 36 -> 5169
      [] n = 42 -> 5392 [] n = 52 -> 5700 [] n = 58 -> 5857 [] n = 62 -> 5954
      [] n = 68 -> 6087 [] n = 84 -> 6392 [] n = 94 -> 6554

PoolSize(pw, symbol) ==
    (IF SearchClass(pw, LowerClass) THEN 26 ELSE 0)
    + (IF SearchClass(pw, UpperClass) THEN 26 ELSE 0)
    + (IF SearchClass(pw, DigitClass) THEN 10 ELSE 0)
    + (IF symbol THEN 32 ELSE 0)

\* A variant that takes the symbol class to be the special_char set.
calculate_entropy_special(pw) ==
    LET pool_size == PoolSize(pw, SearchClass(pw, SpecialClass))
    IN  IF pool_size # 0 THEN Len(pw) * Log2Milli(pool_size) ELSE 0

\* math.log2(pool_size ** len(self.password)) if pool_size else 0
calculate_entropy(pw) ==
    LET pool_size == PoolSize(pw, \E i \in 1..Len(pw) : NonAlnum(pw[i]))
    IN  IF pool_size # 0 THEN Len(pw) * Log2Milli(pool_size) ELSE 0

\* ------------------------------------------------------------- classifier

\* A variant with strict entropy thresholds.
_get_strength_label_strict(score, entropy) ==
    IF score >= 10 /\ entropy > Bits(75) THEN "excellent"
    ELSE IF score >= 8 /\ entropy > Bits(60) THEN "very_strong"
    ELSE IF score >= 6 /\ entropy > Bits(45) THEN "strong"
    ELSE IF score >= 4 /\ entropy > Bits(30) THEN "moderate"
    ELSE IF score >= 2 THEN "weak"
    ELSE "very_weak"

_get_strength_label(score, entropy) ==
    IF score >= 10 /\ entropy >= Bits(75) THEN "excellent"
    ELSE IF score >= 8 /\ entropy >= Bits(60) THEN "very_strong"
    ELSE IF score >= 6 /\ entropy >= Bits(45) THEN "strong"
    ELSE IF score >= 4 /\ entropy >= Bits(30) THEN "moderate"
    ELSE IF score >= 2 THEN "weak"
    ELSE "very_weak"

\* ---------------------------------------------------------------- analyze

\* sum(self.criteria.values())
Score(crit) == Cardinality({k \in DOMAIN crit : crit[k]})

\* A variant with a strict comparison.
IsStrongStrict(score, total) == 4 * score > 3 * total

\* score >= total_criteria * 0.75   (0.75 is exactly 3/4)
IsStrong(score, total) == 4 * score >= 3 * total

\* A variant that keeps the checks that passed.
FailedChecksPassing(crit) == SelectSeq(CriteriaKeys, LAMBDA k : crit[k])

\* [k for k, v in self.criteria.items() if not v]
FailedChecks(crit) == SelectSeq(CriteriaKeys, LAMBDA k : ~crit[k])

\* The dict analyze() returns, from self.criteria and self.password.
analyze(crit, pw) ==
    LET score == Score(crit)
        total_criteria == Cardinality(DOMAIN crit)
        entropy == calculate_entropy(pw)
    IN  [score |-> score,
         total_possible |-> total_criteria,
         strength |-> _get_strength_label(score, entropy),
         entropy |-> entropy,
         is_strong |-> IsStrong(score, total_criteria),
         failed_checks |-> FailedChecks(crit)]

\* ----------------------------------------------------------------- inputs

\* The longest of the candidates enumerated over SmallAlphabet.
MaxLen == 3

\* One character of each kind the checks tell apart: a lowercase and an
\* uppercase form of one letter, a digit, a special character, and a newline
\* (a symbol that "." does not match).
SmallAlphabet == {"a", "A", "1", "!", "\n"}

SmallStrings == UNION {[1..k -> SmallAlphabet] : k \in 0..MaxLen}

Password123 == <<"P", "a", "s", "s", "w", "o", "r", "d", "1", "2", "3", "!">>

Abcdefgh == <<"a", "b", "c", "d", "e", "f", "g", "h">>

NamedCandidates ==
    { Password123,
      Abcdefgh,
      <<"a", "a", "a", "a">>,
      <<"a", "l", "i", "c", "e", "2", "0", "2", "4", "!", "X">>,
      <<"O", "l", "d", "P", "a", "s", "s", "1", "!", "E", "x", "t", "r", "a">>,
      <<"T", "r", "7", "!", "k", "p", "9", "#", "L", "m", "2", "$">>,
      <<"Z", "X", "C", "V", "B", "N", "M", "1">>,
      <<"x", "0", "1", "2", "3", "4", "5", "6", "7", "8", "9", "0">>,
      <<"q", "w", "e", "r", "t", "y", "u", "i", "o", "p">>,
      sequences[1],
      <<UnicodeDigit>>,
      <<"_", "-">> }

Candidates == SmallStrings \cup NamedCandidates

NoContext == [username |-> <<>>, email |-> <<>>, old_password |-> <<>>]

Contexts ==
    { NoContext,
      [username |-> <<"a", "l", "i", "c", "e">>, email |-> <<>>, old_password |-> <<>>],
      [username |-> <<>>,
       email |-> <<"A", "@", "x">>,
       old_password |-> <<"O", "l", "d", "P", "a", "s", "s", "1", "!">>],
      [username |-> <<>>, email |-> <<"@", "x">>, old_password |-> <<"a", "A">>] }

MissingFile == [kind |-> "missing", lines |-> <<>>]

CommonFiles ==
    { MissingFile,
      [kind |-> "denied", lines |-> <<>>],
      [kind |-> "ok", lines |-> <<>>],
      [kind |-> "ok", lines |-> << <<"A", "A", "A", "A", "\n">>, <<"\n">> >>] }

DictFiles ==
    { MissingFile,
      [kind |-> "undecodable", lines |-> <<>>],
      [kind |-> "ok", lines |-> <<>>],
      [kind |-> "ok",
       lines |-> << <<"P", "a", "s", "s", "\n">>, <<"w", "o", "r", "d", "\n">>,
                    <<"a", "\n">> >>] }

\* The entropies the classifier is called with, around each threshold.
EntropyInputs == {Bits(b) : b \in {0, 29, 30, 44, 45, 59, 60, 74, 75, 90}}

ScoreInputs == 0..Len(CriteriaKeys)

\* ------------------------------------------------------------------ state

NoCriteria == [k \in Range(CriteriaKeys) |-> FALSE]

NoResult ==
    [score |-> 0, total_possible |-> 0, strength |-> "", entropy |-> 0,
     is_strong |-> FALSE, failed_checks |-> <<>>]

NoLabel == [score |-> 0, entropy |-> 0, strength |-> ""]

\* No engine exists yet; the two files are as the file system holds them.
Init ==
    /\ pc = "start"
    /\ password = <<>>
    /\ username = <<>>
    /\ email = <<>>
    /\ old_password = <<>>
    /\ common_passwords = <<>>
    /\ criteria = NoCriteria
    /\ result = NoResult
    /\ label = NoLabel
    /\ commonFile \in CommonFiles
    /\ dictFile \in DictFiles

\* Password_Complexity_Checker(pw, username, email, old_password)
Construct(pw, ctx) ==
    LET loaded == _load_common_passwords(commonFile)
        crit == _initialize_criteria(pw, ctx.username, ctx.email, ctx.old_password,
                                     loaded.value, dictFile)
    IN  /\ pc = "start"
        /\ password' = pw
        /\ username' = ctx.username
        /\ email' = ctx.email
        /\ old_password' = ctx.old_password
        /\ common_passwords' = IF loaded.raised THEN common_passwords ELSE loaded.value
        /\ criteria' = IF loaded.raised \/ crit.raised THEN criteria ELSE crit.value
        /\ pc' = IF loaded.raised \/ crit.raised THEN "raised" ELSE "constructed"
        /\ UNCHANGED <<result, label, commonFile, dictFile>>

\* analyzer.analyze()
Analyze ==
    /\ pc \in {"constructed", "analyzed"}
    /\ result' = analyze(criteria, password)
    /\ pc' = "analyzed"
    /\ UNCHANGED <<password, username, email, old_password, common_passwords,
                   criteria, label, commonFile, dictFile>>

Next ==
    \/ \E pw \in Candidates, ctx \in Contexts : Construct(pw, ctx)
    \/ Analyze

Spec == Init /\ [][Next]_vars

\* ---------------------------------------------- one engine, used repeatedly

ReuseCandidates ==
    {<<>>, <<"a", "a", "a", "a">>, <<"a", "A", "1">>, Password123}

\* analyzer.password = pw: the attribute is public and analyze() reads it
SetPassword(pw) ==
    /\ pc \in {"constructed", "analyzed"}
    /\ password' = pw
    /\ pc' = "constructed"
    /\ UNCHANGED <<username, email, old_password, common_passwords, criteria,
                   result, label, commonFile, dictFile>>

\* common_passwords.txt is replaced on disk while the engine lives
ReplaceCommonFile(file) ==
    /\ pc \in {"constructed", "analyzed"}
    /\ commonFile' = file
    /\ pc' = "constructed"
    /\ UNCHANGED <<password, username, email, old_password, common_passwords,
                   criteria, result, label, dictFile>>

\* /usr/share/dict/words is replaced on disk while the engine lives
ReplaceDictFile(file) ==
    /\ pc \in {"constructed", "analyzed"}
    /\ dictFile' = file
    /\ pc' = "constructed"
    /\ UNCHANGED <<password, username, email, old_password, common_passwords,
                   criteria, result, label, commonFile>>

NextReuse ==
    \/ \E pw \in ReuseCandidates : Construct(pw, NoContext)
    \/ Analyze
    \/ \E pw \in ReuseCandidates : SetPassword(pw)
    \/ \E file \in CommonFiles : ReplaceCommonFile(file)
    \/ \E file \in DictFiles : ReplaceDictFile(file)

SpecReuse == Init /\ [][NextReuse]_vars

\* ------------------------------------------- the classifier, called alone

\* Password_Complexity_Checker._get_strength_label(score, entropy)
Classify(score, entropy) ==
    /\ label' = [score |-> score, entropy |-> entropy,
                 strength |-> _get_strength_label(score, entropy)]
    /\ UNCHANGED <<pc, password, username, email, old_password, common_passwords,
                   criteria, result, commonFile, dictFile>>

NextLabel == \E score \in ScoreInputs, entropy \in EntropyInputs : Classify(score, entropy)

SpecLabel == Init /\ [][NextLabel]_vars

\* ----------------------------------------------------------------- claims

\* An engine exists: the constructor returned.
Constructed == pc \in {"constructed", "analyzed"}

NoContextGiven == username = <<>> /\ email = <<>> /\ old_password = <<>>

\* C1: every result of analyze() has total_possible = 12, a score in 0..12,
\* and as many failed checks as 12 - score.
C1_ScoreAndFailedChecks ==
    pc = "analyzed" =>
        /\ result.total_possible = 12
        /\ result.score \in 0..12
        /\ Len(result.failed_checks) = 12 - result.score

\* C1 happens: a result for a candidate with a username, some checks failed.
C1_Witness ==
    /\ pc = "analyzed"
    /\ username # <<>>
    /\ result.score \in 1..11
    /\ Len(result.failed_checks) = 12 - result.score

\* C2: is_strong is true exactly when score >= 9, whatever the entropy and
\* the strength label are.
C2_IsStrongIffScore ==
    pc = "analyzed" => (result.is_strong <=> result.score >= 9)

\* C2 happens: a strong result whose entropy is under 30 bits, labelled weak.
C2_Witness ==
    /\ pc = "analyzed"
    /\ result.is_strong
    /\ result.entropy < Bits(30)
    /\ result.strength = "weak"

\* C3 as stated: the classifier, given score 8, returns very_strong at entropy
\* 60 and moderate at entropy 59.
C3_Original ==
    (label.strength # "" /\ label.score = 8) =>
        /\ (label.entropy = Bits(60) => label.strength = "very_strong")
        /\ (label.entropy = Bits(59) => label.strength = "moderate")

\* C3 amended: the classifier, given score 8, returns very_strong at entropy
\* 60 and strong at entropy 59 (the row score >= 6, entropy >= 45 matches
\* before the moderate row is reached).
C3_Boundary ==
    (label.strength # "" /\ label.score = 8) =>
        /\ (label.entropy = Bits(60) => label.strength = "very_strong")
        /\ (label.entropy = Bits(59) => label.strength = "strong")

\* C3 happens: the classifier was called with score 8 and entropy 59.
C3_Witness ==
    label.score = 8 /\ label.entropy = Bits(59) /\ label.strength = "strong"

EmptyAnalyzed == pc = "analyzed" /\ password = <<>> /\ NoContextGiven

FiveCharacterChecks == <<"length", "uppercase", "lowercase", "number", "special_char">>

\* C4 as stated: the empty candidate with no context gets entropy 0 and
\* score 0.
C4_Original ==
    EmptyAnalyzed => (result.entropy = 0 /\ result.score = 0)

\* C4 amended: the empty candidate with no context gets entropy 0 and fails
\* exactly length, uppercase, lowercase, number and special_char, so its score
\* is 7; when the loaded common-passwords list holds the empty string (a blank
\* line of the file) not_common fails too and the score is 6.
C4_EmptyCandidate ==
    EmptyAnalyzed =>
        /\ result.entropy = 0
        /\ result.failed_checks =
               IF InList(<<>>, common_passwords)
               THEN FiveCharacterChecks \o <<"not_common">>
               ELSE FiveCharacterChecks
        /\ result.score = IF InList(<<>>, common_passwords) THEN 6 ELSE 7

\* C4 happens: the empty candidate was analyzed and scored 7.
C4_Witness == EmptyAnalyzed /\ result.score = 7

\* C5: the score and failed checks analyze() returns are those of the twelve
\* checks evaluated on the candidate, the context and the reference files as
\* they are at that call.
C5_FreshCriteria ==
    LET loaded == _load_common_passwords(commonFile)
        fresh == _initialize_criteria(password, username, email, old_password,
                                      loaded.value, dictFile)
    IN  (pc = "analyzed" /\ ~loaded.raised /\ ~fresh.raised) =>
            /\ result.score = Score(fresh.value)
            /\ result.failed_checks = FailedChecks(fresh.value)

\* C6: however the load of a reference file fails, no error reaches the
\* constructor's caller.
C6_LoadNeverRaises ==
    (commonFile.kind \in LoadFailureKinds \/ dictFile.kind \in LoadFailureKinds)
        => pc # "raised"

Password123NoLists ==
    /\ Constructed
    /\ password = Password123
    /\ NoContextGiven
    /\ common_passwords = <<>>
    /\ dictFile.lines = <<>>

\* C7 as stated: for "Password123!" with empty lists and no context the
\* length check fails and uppercase, lowercase, number, special_char pass.
C7_Original ==
    Password123NoLists =>
        /\ ~criteria.length
        /\ criteria.uppercase /\ criteria.lowercase
        /\ criteria.number /\ criteria.special_char

\* C7 amended: for "Password123!" (12 characters) with empty lists and no
\* context the length check passes, as do uppercase, lowercase, number and
\* special_char.
C7_Password123 ==
    Password123NoLists =>
        /\ criteria.length
        /\ criteria.uppercase /\ criteria.lowercase
        /\ criteria.number /\ criteria.special_char

\* C7 happens: an engine for "Password123!" with empty lists, length passed.
C7_Witness == Password123NoLists /\ criteria.length /\ Len(password) = 12

\* No character of pw is lowercase, uppercase, a digit or a symbol.
NoClassChar(pw) ==
    \A i \in 1..Len(pw) :
        pw[i] \notin (LowerClass \cup UpperClass \cup DigitClass) /\ ~NonAlnum(pw[i])

\* C8: the entropy is 0 exactly when the candidate is empty or has no
\* character of the four classes; every other candidate's entropy is above 0.
C8_EntropyZero ==
    pc = "analyzed" =>
        /\ (result.entropy = 0 <=> (password = <<>> \/ NoClassChar(password)))
        /\ ((password # <<>> /\ ~NoClassChar(password)) => result.entropy > 0)

\* C8 happens: a candidate made of one symbol outside the special_char set.
C8_Witness ==
    pc = "analyzed" /\ password = <<"\n">> /\ result.entropy = Bits(5)

\* s has one character, whatever it is, three times in a row.
TripleRun(s) == \E i \in 1..(Len(s) - 2) : s[i + 1] = s[i] /\ s[i + 2] = s[i]

\* C9 as stated: no_repeated fails exactly for the candidates whose lowercased
\* form has the same character three or more times in a row.
C9_Original ==
    Constructed => (~criteria.no_repeated <=> TripleRun(Lower(password)))

\* C9 amended: the detector works on the candidate as given: no_repeated
\* fails exactly for the candidates that have the same character, other than
\* a newline, three or more times in a row, case-sensitively; a run that
\* mixes cases of one letter passes.
C9_RepeatedAsGiven ==
    Constructed =>
        (~criteria.no_repeated <=>
            \E i \in 1..(Len(password) - 2) :
                /\ password[i] # "\n"
                /\ password[i + 1] = password[i]
                /\ password[i + 2] = password[i])

\* C9 happens: "aAa", a run mixing the cases of one letter, passed.
C9_Witness ==
    Constructed /\ password = <<"a", "A", "a">> /\ criteria.no_repeated

\* The lowercased candidate contains, in full, a reference sequence whose
\* length is in lengths.
ContainsFullSequence(lengths) ==
    \E k \in 1..Len(sequences) :
        Len(sequences[k]) \in lengths /\ Contains(Lower(password), sequences[k])

====
